---- MODULE Spec2Model ----
(***************************************************************************)
(* A model of the pull-based query interpreter of src/src/main.rs: the     *)
(* driver (main), the planner (query_as_relation), the three relations     *)
(* (SequentialScan, Selection, Projection) and the expression evaluator.   *)
(* The SQL parser and the CSV codec are external; the model starts from    *)
(* the parsed statements and from the records the CSV reader yields.       *)
(***************************************************************************)
EXTENDS Integers, Sequences, FiniteSets, TLC

(***************************************************************************)
(* Bounds                                                                  *)
(***************************************************************************)
\* the largest number of data records of the scanned file
MaxRecords == 3

(***************************************************************************)
(* enum Value, and Option / panics                                         *)
(***************************************************************************)
ValueString(s) == [tag |-> "String", s |-> s, b |-> FALSE, i |-> 0]

ValueBoolean(b) == [tag |-> "Boolean", s |-> "", b |-> b, i |-> 0]

ValueInteger(i) == [tag |-> "Integer", s |-> "", b |-> FALSE, i |-> i]

\* the outcome of an evaluation that panics (unwrap, unimplemented!, expect)
Panic == [tag |-> "Panic", s |-> "", b |-> FALSE, i |-> 0]

None == [some |-> FALSE, item |-> <<>>]

Some(item) == [some |-> TRUE, item |-> item]

(***************************************************************************)
(* Text conversions: str::parse::<bool>, str::parse::<i64>, i64::to_string *)
(* on the texts the model uses.                                            *)
(***************************************************************************)
\* the texts that parse as i64 and their values ("007" parses to 7)
I64Texts == ("0" :> 0) @@ ("7" :> 7) @@ ("007" :> 7) @@ ("30" :> 30) @@ ("31" :> 31)

\* the decimal text of an integer, as i64::to_string writes it
i64_to_string(i) ==
    CASE i = 0 -> "0" [] i = 7 -> "7" [] i = 30 -> "30" [] i = 31 -> "31"

parse_bool(s) ==
    IF s = "true" THEN [ok |-> TRUE, v |-> TRUE]
    ELSE IF s = "false" THEN [ok |-> TRUE, v |-> FALSE]
    ELSE [ok |-> FALSE, v |-> FALSE]

parse_i64(s) ==
    IF s \in DOMAIN I64Texts THEN [ok |-> TRUE, v |-> I64Texts[s]]
    ELSE [ok |-> FALSE, v |-> 0]

\* SequentialScan::next, the closure applied to every cell
infer(s) ==
    IF parse_bool(s).ok THEN ValueBoolean(parse_bool(s).v)
    ELSE IF parse_i64(s).ok THEN ValueInteger(parse_i64(s).v)
    ELSE ValueString(s)

\* SequentialScan::next, Ok(record): the item of a record
record_item(record) == [c \in 1..Len(record) |-> infer(record[c])]

\* main: the text written for a Value
render(v) ==
    CASE v.tag = "String" -> v.s
      [] v.tag = "Boolean" -> IF v.b THEN "true" ELSE "false"
      [] v.tag = "Integer" -> i64_to_string(v.i)

\* main: csv::StringRecord::from_iter(row.iter().map(..))
row_record(row) == [c \in 1..Len(row) |-> render(row[c])]

(***************************************************************************)
(* The expression evaluator                                                *)
(***************************************************************************)
\* Iterator::position: the first index holding name, 0 for None
position(attributes, name) ==
    IF \E p \in 1..Len(attributes) : attributes[p] = name
    THEN CHOOSE p \in 1..Len(attributes) :
            /\ attributes[p] = name
            /\ \A q \in 1..(p - 1) : attributes[q] # name
    ELSE 0

\* a faulty truthiness: every String counts as true
eval_value_as_bool_any_string(value) ==
    CASE value.tag = "Boolean" -> value.b
      [] value.tag = "Integer" -> value.i # 0
      [] value.tag = "String" -> TRUE

eval_value_as_bool(value) ==
    CASE value.tag = "Boolean" -> value.b
      [] value.tag = "Integer" -> value.i # 0
      [] value.tag = "String" -> value.s # ""

RECURSIVE eval_expr_on_row(_, _, _)
eval_expr_on_row(expr, relation_attributes, row) ==
    CASE expr.kind = "BinaryOp" ->
           LET left_value == eval_expr_on_row(expr.left, relation_attributes, row)
               right_value == eval_expr_on_row(expr.right, relation_attributes, row)
           IN  IF left_value.tag = "Panic" \/ right_value.tag = "Panic" THEN Panic
               ELSE CASE expr.op = "And" ->
                           ValueBoolean(eval_value_as_bool(left_value)
                                        /\ eval_value_as_bool(right_value))
                      [] expr.op = "Or" ->
                           ValueBoolean(eval_value_as_bool(left_value)
                                        \/ eval_value_as_bool(right_value))
                      [] expr.op = "Gt" ->
                           IF left_value.tag = "Integer" /\ right_value.tag = "Integer"
                           THEN ValueBoolean(left_value.i > right_value.i)
                           ELSE Panic
                      [] OTHER -> Panic
      [] expr.kind = "Identifier" ->
           LET source_position == position(relation_attributes, expr.value)
           IN  IF source_position = 0 THEN Panic ELSE row[source_position]
      [] expr.kind = "Value" ->
           CASE expr.literal = "Boolean" -> ValueBoolean(expr.value = "true")
             [] expr.literal \in {"DoubleQuotedString", "SingleQuotedString"} ->
                  ValueString(expr.value)
             [] expr.literal = "Number" ->
                  IF parse_i64(expr.value).ok
                  THEN ValueInteger(parse_i64(expr.value).v)
                  ELSE Panic
             [] OTHER -> Panic
      [] OTHER -> Panic

(***************************************************************************)
(* Projection                                                              *)
(***************************************************************************)
\* a faulty Projection::next: the wildcard is left to attributes() and
\* pushes no cell
select_item_cells_no_wildcard(select_item, relation_attributes, relation_item) ==
    IF select_item.kind = "Wildcard" THEN [panic |-> FALSE, item |-> <<>>]
    ELSE LET name == IF select_item.kind = "ExprWithAlias" THEN select_item.alias
                     ELSE IF select_item.kind = "UnnamedExpr"
                               /\ select_item.expr.kind = "Identifier"
                          THEN select_item.expr.value
                          ELSE ""
             source_position == position(relation_attributes, name)
         IN  IF source_position = 0 THEN [panic |-> TRUE, item |-> <<>>]
             ELSE [panic |-> FALSE, item |-> <<relation_item[source_position]>>]

\* Projection::next, the cells one select item pushes; panic is the unwrap
\* of a missing position, unreachable!() or unimplemented!()
select_item_cells(select_item, relation_attributes, relation_item) ==
    IF select_item.kind = "Wildcard"
    THEN [panic |-> FALSE,
          item |-> [a \in 1..Len(relation_attributes) |->
                      relation_item[position(relation_attributes,
                                             relation_attributes[a])]]]
    ELSE LET select_item_name ==
                 CASE select_item.kind = "ExprWithAlias" ->
                        [panic |-> FALSE, name |-> select_item.alias]
                   [] select_item.kind = "UnnamedExpr" ->
                        IF select_item.expr.kind = "Identifier"
                        THEN [panic |-> FALSE, name |-> select_item.expr.value]
                        ELSE [panic |-> TRUE, name |-> ""]
                   [] OTHER -> [panic |-> TRUE, name |-> ""]
             source_position == position(relation_attributes, select_item_name.name)
         IN  IF select_item_name.panic \/ source_position = 0
             THEN [panic |-> TRUE, item |-> <<>>]
             ELSE [panic |-> FALSE, item |-> <<relation_item[source_position]>>]

\* Projection::next, Some(relation_item): the loop over self.projected
RECURSIVE Projection_item(_, _, _)
Projection_item(projected, relation_attributes, relation_item) ==
    IF projected = <<>> THEN [panic |-> FALSE, item |-> <<>>]
    ELSE LET first == select_item_cells(Head(projected), relation_attributes,
                                        relation_item)
             rest == Projection_item(Tail(projected), relation_attributes,
                                     relation_item)
         IN  IF first.panic \/ rest.panic THEN [panic |-> TRUE, item |-> <<>>]
             ELSE [panic |-> FALSE, item |-> first.item \o rest.item]

\* Projection::attributes, the names one select item pushes
select_item_attributes(select_item, child_attributes) ==
    CASE select_item.kind = "ExprWithAlias" ->
           [panic |-> FALSE, attributes |-> <<select_item.alias>>]
      [] select_item.kind = "UnnamedExpr" ->
           IF select_item.expr.kind = "Identifier"
           THEN [panic |-> FALSE, attributes |-> <<select_item.expr.value>>]
           ELSE [panic |-> TRUE, attributes |-> <<>>]
      [] select_item.kind = "Wildcard" ->
           [panic |-> FALSE, attributes |-> child_attributes]
      [] OTHER -> [panic |-> TRUE, attributes |-> <<>>]

\* Projection::attributes, the loop over self.projected
RECURSIVE Projection_attributes(_, _)
Projection_attributes(projected, child_attributes) ==
    IF projected = <<>> THEN [panic |-> FALSE, attributes |-> <<>>]
    ELSE LET first == select_item_attributes(Head(projected), child_attributes)
             rest == Projection_attributes(Tail(projected), child_attributes)
         IN  IF first.panic \/ rest.panic THEN [panic |-> TRUE, attributes |-> <<>>]
             ELSE [panic |-> FALSE, attributes |-> first.attributes \o rest.attributes]

(***************************************************************************)
(* Relation::attributes of the relation at a depth of the operator chain.  *)
(* A chain is a sequence of nodes, the root first and the scan last; each  *)
(* node owns the node after it.                                            *)
(***************************************************************************)
RECURSIVE attributes(_, _, _)
attributes(relation, d, headers) ==
    CASE relation[d].kind = "SequentialScan" ->
           [panic |-> FALSE, attributes |-> headers]
      [] relation[d].kind = "Selection" -> attributes(relation, d + 1, headers)
      [] relation[d].kind = "Projection" ->
           Projection_attributes(relation[d].projected,
                                 attributes(relation, d + 1, headers).attributes)

(***************************************************************************)
(* Selection                                                               *)
(***************************************************************************)
\* Selection::next, Some(relation_item): what the loop does with the item
Selection_step(selection, relation_attributes, relation_item) ==
    LET value == eval_expr_on_row(selection, relation_attributes, relation_item)
    IN  IF value.tag = "Panic" THEN "panic"
        ELSE IF ~eval_value_as_bool(value) THEN "continue"
        ELSE "break"

(***************************************************************************)
(* SequentialScan                                                          *)
(***************************************************************************)
\* a faulty SequentialScan::next: a record read as Err is skipped and the
\* next one is read
RECURSIVE SequentialScan_next_skip(_, _)
SequentialScan_next_skip(records, pos) ==
    IF pos < Len(records)
    THEN IF records[pos + 1].ok
         THEN [pos |-> pos + 1, item |-> Some(record_item(records[pos + 1].cells))]
         ELSE SequentialScan_next_skip(records, pos + 1)
    ELSE [pos |-> pos, item |-> None]

\* SequentialScan::next: one self.reader.records().next() at reader position
\* pos; a record the reader reports as Err ends the relation
SequentialScan_next(records, pos) ==
    IF pos < Len(records)
    THEN IF records[pos + 1].ok
         THEN [pos |-> pos + 1, item |-> Some(record_item(records[pos + 1].cells))]
         ELSE [pos |-> pos + 1, item |-> None]
    ELSE [pos |-> pos, item |-> None]

(***************************************************************************)
(* The planner                                                             *)
(***************************************************************************)
\* the paths csv::Reader::from_path can open; each holds the scanned file
Paths == {"t", "db.t"}

RECURSIVE join(_, _)
join(parts, sep) ==
    IF Len(parts) = 0 THEN ""
    ELSE IF Len(parts) = 1 THEN parts[1]
    ELSE parts[1] \o sep \o join(Tail(parts), sep)

project_relation(projection, relation) ==
    <<[kind |-> "Projection", projected |-> projection]>> \o relation

query_as_relation(query) ==
    IF query.body # "Select" THEN [panic |-> TRUE, relation |-> <<>>]
    ELSE IF query.from = <<>> THEN [panic |-> TRUE, relation |-> <<>>]
    ELSE LET table_with_joins == Head(query.from)
             table_factor == table_with_joins.relation
         IN  IF table_with_joins.joins # <<>> THEN [panic |-> TRUE, relation |-> <<>>]
             ELSE IF table_factor.kind # "Table" THEN [panic |-> TRUE, relation |-> <<>>]
             ELSE LET filename == join(table_factor.name, ".")
                      scan == <<[kind |-> "SequentialScan", path |-> filename]>>
                      selected ==
                          IF query.selection.some
                          THEN <<[kind |-> "Selection",
                                  selection |-> query.selection.item]>> \o scan
                          ELSE scan
                  IN  IF filename \notin Paths
                      THEN [panic |-> TRUE, relation |-> <<>>]
                      ELSE [panic |-> FALSE,
                            relation |-> IF query.projection # <<>>
                                         THEN project_relation(query.projection, selected)
                                         ELSE selected]

(***************************************************************************)
(* Inputs: the parsed statements on stdin and the content of the CSV file. *)
(***************************************************************************)
Identifier(value) == [kind |-> "Identifier", value |-> value]

Literal(literal, value) == [kind |-> "Value", literal |-> literal, value |-> value]

BinaryOp(left, op, right) == [kind |-> "BinaryOp", left |-> left, op |-> op, right |-> right]

\* an expression of another shape (a unary operator, a call)
OtherExpr(kind) == [kind |-> kind, value |-> ""]

Wildcard == [kind |-> "Wildcard"]

QualifiedWildcard == [kind |-> "QualifiedWildcard"]

UnnamedExpr(expr) == [kind |-> "UnnamedExpr", expr |-> expr]

ExprWithAlias(expr, alias) == [kind |-> "ExprWithAlias", expr |-> expr, alias |-> alias]

Table(name) == [relation |-> [kind |-> "Table", name |-> name], joins |-> <<>>]

\* SELECT projection FROM from [WHERE selection]; tail names what else the
\* parsed Query carries (ORDER BY, LIMIT, GROUP BY, DISTINCT), "" for nothing
Select(projection, from, selection, tail) ==
    [kind |-> "Query", body |-> "Select", projection |-> projection,
     from |-> from, selection |-> selection, tail |-> tail]

\* the WHERE clauses tried
Selections ==
    << None,
       Some(BinaryOp(Identifier("x"), "Gt", Literal("Number", "30"))),
       Some(Identifier("x")),
       Some(Identifier("y")),
       Some(Identifier("z")),
       Some(BinaryOp(Identifier("x"), "And", Identifier("y"))),
       Some(BinaryOp(Identifier("x"), "Or", Identifier("z"))),
       Some(BinaryOp(Identifier("x"), "Eq", Literal("Number", "30"))),
       Some(BinaryOp(Identifier("x"), "Gt", Literal("Number", "1.5"))),
       Some(Literal("SingleQuotedString", "a")),
       Some(Literal("Boolean", "false")),
       Some(Literal("Null", "")),
       Some(OtherExpr("UnaryOp")) >>

\* the SELECT lists tried
Projections ==
    << <<Wildcard>>,
       <<UnnamedExpr(Identifier("x"))>>,
       <<UnnamedExpr(Identifier("y")), UnnamedExpr(Identifier("x"))>>,
       <<ExprWithAlias(Identifier("x"), "y")>>,
       <<ExprWithAlias(Identifier("x"), "z")>>,
       <<UnnamedExpr(Identifier("z"))>>,
       <<UnnamedExpr(BinaryOp(Identifier("x"), "Plus", Literal("Number", "7")))>>,
       <<ExprWithAlias(BinaryOp(Identifier("x"), "Plus", Literal("Number", "7")), "y")>>,
       <<ExprWithAlias(OtherExpr("Function"), "x")>>,
       <<Wildcard, UnnamedExpr(Identifier("x"))>>,
       <<QualifiedWildcard>>,
       << >> >>

\* one-statement inputs: every SELECT list with two WHERE clauses, every
\* WHERE clause with two SELECT lists, over the one table
OperatorInputs ==
    {<<Select(Projections[p], <<Table(<<"t">>)>>, Selections[s], "")>> :
        p \in DOMAIN Projections, s \in 1..2}
    \cup {<<Select(Projections[p], <<Table(<<"t">>)>>, Selections[s], "")>> :
            p \in 1..2, s \in DOMAIN Selections}

SelectAll(from, tail) == Select(<<Wildcard>>, from, Selections[2], tail)

\* inputs of other shapes: FROM clauses, query tails, bodies, statements
ShapeInputs ==
    { << >>,
      <<[kind |-> "Insert"]>>,
      <<SelectAll(<<Table(<<"t">>)>>, ""), SelectAll(<<Table(<<"db", "t">>)>>, "")>>,
      <<SelectAll(<<Table(<<"t">>)>>, ""), [kind |-> "Insert"]>>,
      <<SelectAll(<< >>, "")>>,
      <<SelectAll(<<Table(<<"u">>)>>, "")>>,
      <<SelectAll(<<Table(<<"t">>), Table(<<"u">>)>>, "")>>,
      <<SelectAll(<<[relation |-> [kind |-> "Table", name |-> <<"t">>],
                     joins |-> <<"Inner">>]>>, "")>>,
      <<SelectAll(<<Table(<<"t">>),
                    [relation |-> [kind |-> "Table", name |-> <<"t">>],
                     joins |-> <<"Inner">>]>>, "")>>,
      <<SelectAll(<<[relation |-> [kind |-> "Derived", name |-> <<>>],
                     joins |-> <<>>]>>, "")>>,
      <<SelectAll(<<Table(<<"t">>)>>, "OrderBy")>>,
      <<SelectAll(<<Table(<<"t">>)>>, "Limit")>>,
      <<SelectAll(<<Table(<<"t">>)>>, "GroupBy")>>,
      <<SelectAll(<<Table(<<"t">>)>>, "Distinct")>>,
      <<[kind |-> "Query", body |-> "SetOperation", projection |-> <<>>,
         from |-> <<>>, selection |-> None, tail |-> ""]>> }

\* the header records tried
Headers == {<<"x">>, <<"x", "y">>, <<"x", "x">>}

\* the texts tried for the cell of column c under the header h
CellTexts(h, c) ==
    IF Len(h) = 1 THEN {"", "x", "0", "31", "true"}
    ELSE IF c = 1 THEN {"0", "31"}
    ELSE {"007", "false"}

\* what reader.records() yields for one data record of a file with the
\* header h: Ok(record) with as many cells as the header, or Err
Records(h) ==
    {[ok |-> TRUE, cells |-> cells] :
        cells \in {r \in [1..Len(h) -> UNION {CellTexts(h, c) : c \in 1..Len(h)}] :
                     \A c \in 1..Len(h) : r[c] \in CellTexts(h, c)}}
    \cup {[ok |-> FALSE, cells |-> <<>>]}

\* the files with at most n data records
Files(n) ==
    UNION {{[headers |-> h, records |-> records] :
                records \in UNION {[1..k -> Records(h)] : k \in 0..n}} :
           h \in Headers}

(***************************************************************************)
(* State                                                                   *)
(***************************************************************************)
VARIABLES
    ast,        \* main: the parsed statements
    file,       \* the CSV file the paths name: headers and data records
    si,         \* main: the index of the statement the for loop is at
    pc,         \* main: "statement", "header", "rows" or "exited"
    panicked,   \* the process has panicked where pc and depth point
    relation,   \* main: the operator chain of the statement, root first
    pos,        \* SequentialScan.reader: the data records consumed
    depth,      \* the node in control, 0 for main
    dir,        \* "call": the node was asked for its next item;
                \* "ret": the node has returned ret to its parent
    ret,        \* the Option returned by the node at depth
    out,        \* stdout: one CSV document per csv::Writer
    calls,      \* per node, the next() calls it made on its child (for
                \* the scan: on its reader) in its current next()
    skipped,    \* per node, the child items it dropped in its current next()
    reads,      \* the reader calls made since main last asked the root
    produced,   \* per node, the items it has returned, in order
    ended       \* per node, whether it has returned None

vars == <<ast, file, si, pc, panicked, relation, pos, depth, dir, ret, out,
          calls, skipped, reads, produced, ended>>

input == <<ast, file>>

history == <<calls, skipped, reads, produced, ended>>

Init ==
    /\ \/ ast \in OperatorInputs /\ file \in Files(MaxRecords)
       \/ ast \in ShapeInputs /\ file \in {f \in Files(MaxRecords) : Len(f.headers) = 1}
    /\ si = 1
    /\ pc = "statement"
    /\ panicked = FALSE
    /\ relation = <<>>
    /\ pos = 0
    /\ depth = 0
    /\ dir = "call"
    /\ ret = None
    /\ out = <<>>
    /\ calls = <<>>
    /\ skipped = <<>>
    /\ reads = 0
    /\ produced = <<>>
    /\ ended = <<>>

\* a panic unwinds the process: nothing runs after it
PanicHere ==
    /\ panicked' = TRUE
    /\ UNCHANGED <<input, si, pc, relation, pos, depth, dir, ret, out, history>>

(***************************************************************************)
(* main                                                                    *)
(***************************************************************************)
\* for statement in ast.iter(): match statement, query_as_relation(query)
MainStatement ==
    /\ ~panicked /\ pc = "statement" /\ si <= Len(ast)
    /\ IF ast[si].kind # "Query" THEN PanicHere
       ELSE LET planned == query_as_relation(ast[si])
            IN  IF planned.panic THEN PanicHere
                ELSE /\ relation' = planned.relation
                     /\ pos' = 0
                     /\ pc' = "header"
                     /\ depth' = 0
                     /\ dir' = "call"
                     /\ ret' = None
                     /\ calls' = [d \in 1..Len(planned.relation) |-> 0]
                     /\ skipped' = [d \in 1..Len(planned.relation) |-> 0]
                     /\ reads' = 0
                     /\ produced' = [d \in 1..Len(planned.relation) |-> <<>>]
                     /\ ended' = [d \in 1..Len(planned.relation) |-> FALSE]
                     /\ UNCHANGED <<input, si, panicked, out>>

\* the for loop over the statements is over: main returns
MainExit ==
    /\ ~panicked /\ pc = "statement" /\ si > Len(ast)
    /\ pc' = "exited"
    /\ UNCHANGED <<input, si, panicked, relation, pos, depth, dir, ret, out, history>>

\* relation.attributes(), csv::Writer::from_writer, write_record(attributes)
MainWriteHeader ==
    /\ ~panicked /\ pc = "header"
    /\ LET root == attributes(relation, 1, file.headers)
       IN  IF root.panic THEN PanicHere
           ELSE /\ out' = Append(out, <<root.attributes>>)
                /\ pc' = "rows"
                /\ UNCHANGED <<input, si, panicked, relation, pos, depth, dir, ret,
                               history>>

\* for row in relation: the call of relation.next()
MainNext ==
    /\ ~panicked /\ pc = "rows" /\ depth = 0 /\ dir = "call"
    /\ depth' = 1
    /\ calls' = [calls EXCEPT ![1] = 0]
    /\ skipped' = [skipped EXCEPT ![1] = 0]
    /\ reads' = 0
    /\ UNCHANGED <<input, si, pc, panicked, relation, pos, dir, ret, out, produced,
                   ended>>

\* for row in relation: Some(row) is written, None ends the loop and the
\* statement (relation and writer are dropped)
MainReceive ==
    /\ ~panicked /\ pc = "rows" /\ depth = 1 /\ dir = "ret"
    /\ IF ret.some
       THEN /\ out' = [out EXCEPT ![Len(out)] = Append(@, row_record(ret.item))]
            /\ depth' = 0
            /\ dir' = "call"
            /\ UNCHANGED <<si, pc>>
       ELSE /\ si' = si + 1
            /\ pc' = "statement"
            /\ depth' = 0
            /\ dir' = "call"
            /\ out' = out
    /\ UNCHANGED <<input, panicked, relation, pos, ret, history>>

(***************************************************************************)
(* The relations                                                           *)
(***************************************************************************)
\* the node at depth calls next() on its child
CallChild ==
    /\ depth' = depth + 1
    /\ dir' = "call"
    /\ calls' = [calls EXCEPT ![depth] = @ + 1, ![depth + 1] = 0]
    /\ skipped' = [skipped EXCEPT ![depth + 1] = 0]

\* the node d returns item to its parent
Return(d, item) ==
    /\ depth' = d
    /\ dir' = "ret"
    /\ ret' = item
    /\ produced' = IF item.some THEN [produced EXCEPT ![d] = Append(@, item.item)]
                   ELSE produced
    /\ ended' = IF item.some THEN ended ELSE [ended EXCEPT ![d] = TRUE]

\* SequentialScan::next
ScanNext ==
    /\ ~panicked /\ pc = "rows" /\ depth >= 1 /\ dir = "call"
    /\ relation[depth].kind = "SequentialScan"
    /\ LET read == SequentialScan_next(file.records, pos)
       IN  /\ pos' = read.pos
           /\ Return(depth, read.item)
    /\ calls' = [calls EXCEPT ![depth] = @ + 1]
    /\ reads' = reads + 1
    /\ UNCHANGED <<input, si, pc, panicked, relation, out, skipped>>

\* Selection::next, the head of the loop: self.relation.next()
SelectionNext ==
    /\ ~panicked /\ pc = "rows" /\ depth >= 1 /\ dir = "call"
    /\ relation[depth].kind = "Selection"
    /\ CallChild
    /\ UNCHANGED <<input, si, pc, panicked, relation, pos, ret, out, reads, produced,
                   ended>>

\* Selection::next, the match on what the child returned
SelectionReceive ==
    /\ ~panicked /\ pc = "rows" /\ depth >= 2 /\ dir = "ret"
    /\ relation[depth - 1].kind = "Selection"
    /\ LET d == depth - 1
           step == Selection_step(relation[d].selection,
                                  attributes(relation, depth, file.headers).attributes,
                                  ret.item)
       IN  IF ~ret.some
           THEN Return(d, None) /\ UNCHANGED <<panicked, skipped>>
           ELSE IF step = "panic" THEN PanicHere
           ELSE IF step = "continue"
           THEN /\ depth' = d
                /\ dir' = "call"
                /\ skipped' = [skipped EXCEPT ![d] = @ + 1]
                /\ UNCHANGED <<panicked, ret, produced, ended>>
           ELSE Return(d, ret) /\ UNCHANGED <<panicked, skipped>>
    /\ UNCHANGED <<input, si, pc, relation, pos, out, calls, reads>>

\* Projection::next: self.relation.attributes(), then self.relation.next()
ProjectionNext ==
    /\ ~panicked /\ pc = "rows" /\ depth >= 1 /\ dir = "call"
    /\ relation[depth].kind = "Projection"
    /\ CallChild
    /\ UNCHANGED <<input, si, pc, panicked, relation, pos, ret, out, reads, produced,
                   ended>>

\* a faulty Projection::next: the first item of the child only tells that
\* there is one, and the child is asked again for the item to project
ProjectionReceive_asks_again ==
    /\ ~panicked /\ pc = "rows" /\ depth >= 2 /\ dir = "ret"
    /\ relation[depth - 1].kind = "Projection"
    /\ LET d == depth - 1
           built == Projection_item(relation[d].projected,
                                    attributes(relation, depth, file.headers).attributes,
                                    ret.item)
       IN  IF ~ret.some
           THEN Return(d, None) /\ UNCHANGED panicked
           ELSE IF calls[d] = 1
           THEN /\ depth' = d
                /\ dir' = "call"
                /\ UNCHANGED <<panicked, ret, produced, ended>>
           ELSE IF built.panic THEN PanicHere
           ELSE Return(d, Some(built.item)) /\ UNCHANGED panicked
    /\ UNCHANGED <<input, si, pc, relation, pos, out, calls, skipped, reads>>

\* Projection::next, the match on what the child returned; the child's
\* attributes are its headers, the same before and after its next()
ProjectionReceive ==
    /\ ~panicked /\ pc = "rows" /\ depth >= 2 /\ dir = "ret"
    /\ relation[depth - 1].kind = "Projection"
    /\ LET d == depth - 1
           built == Projection_item(relation[d].projected,
                                    attributes(relation, depth, file.headers).attributes,
                                    ret.item)
       IN  IF ~ret.some
           THEN Return(d, None) /\ UNCHANGED panicked
           ELSE IF built.panic THEN PanicHere
           ELSE Return(d, Some(built.item)) /\ UNCHANGED panicked
    /\ UNCHANGED <<input, si, pc, relation, pos, out, calls, skipped, reads>>

Next ==
    \/ MainStatement
    \/ MainExit
    \/ MainWriteHeader
    \/ MainNext
    \/ MainReceive
    \/ ScanNext
    \/ SelectionNext
    \/ SelectionReceive
    \/ ProjectionNext
    \/ ProjectionReceive

Spec == Init /\ [][Next]_vars

(***************************************************************************)
(* Properties                                                              *)
(***************************************************************************)
\* truthiness as the specification words it
Truthy(value) ==
    \/ value.tag = "Boolean" /\ value.b
    \/ value.tag = "Integer" /\ value.i # 0
    \/ value.tag = "String" /\ value.s # ""

Last(seq) == seq[Len(seq)]

Front(seq) == SubSeq(seq, 1, Len(seq) - 1)

\* the node d - 1 has not yet looked at the item its child d just returned
InFlight(d) == pc = "rows" /\ depth = d /\ dir = "ret"

\* the node d has just returned an item
Returned(d) == pc = "rows" /\ depth = d /\ dir = "ret" /\ ret.some

ChildAttributes(d) == attributes(relation, d + 1, file.headers).attributes

\* C1: a Selection has produced exactly the child items whose predicate value
\* is truthy (Boolean: itself; Integer: non-zero; String: non-empty), each
\* unchanged and in the child's order, and has signalled the end exactly
\* when its child has.
C1_SelectionFilters ==
    \A d \in 1..Len(relation) :
        relation[d].kind = "Selection" =>
            LET seen == IF InFlight(d + 1) /\ ret.some
                        THEN Front(produced[d + 1])
                        ELSE produced[d + 1]
                keep(item) == Truthy(eval_expr_on_row(relation[d].selection,
                                                      ChildAttributes(d), item))
            IN  /\ produced[d] = SelectSeq(seen, keep)
                /\ ended[d] => ended[d + 1]
                /\ (ended[d + 1] /\ ~InFlight(d + 1)) => ended[d]

\* C1 happens: over the ages 0, 31 and the predicate x > 30 the Selection has
\* dropped one item, kept one and ended.
C1_Witness ==
    \E d \in 1..Len(relation) :
        /\ relation[d].kind = "Selection"
        /\ relation[d].selection = Selections[2].item
        /\ Len(produced[d + 1]) = 2
        /\ produced[d] = <<produced[d + 1][2]>>
        /\ ended[d]

\* C1 happens for a bare String column too: "" dropped, "x" kept.
C1_WitnessString ==
    \E d \in 1..Len(relation) :
        /\ relation[d].kind = "Selection"
        /\ relation[d].selection = Identifier("x")
        /\ produced[d + 1] = <<<<ValueString("")>>, <<ValueString("x")>>>>
        /\ produced[d] = <<<<ValueString("x")>>>>

\* the position of target t in the output of a select list
RECURSIVE TargetOffset(_, _, _)
TargetOffset(projected, t, child_attributes) ==
    IF t = 1 THEN 1
    ELSE TargetOffset(projected, t - 1, child_attributes)
         + (IF projected[t - 1].kind = "Wildcard" THEN Len(child_attributes) ELSE 1)

\* C2: a target "s AS a" whose source s is a child column makes attributes()
\* report a at the target's position, and every next() that receives a child
\* item returns, at that position, the item's value of s, without a panic.
C2_AliasRenames ==
    \A d \in 1..Len(relation) :
        relation[d].kind = "Projection" =>
            \A t \in 1..Len(relation[d].projected) :
                LET target == relation[d].projected[t]
                    at == TargetOffset(relation[d].projected, t, ChildAttributes(d))
                IN  (/\ target.kind = "ExprWithAlias"
                     /\ target.expr.kind = "Identifier"
                     /\ position(ChildAttributes(d), target.expr.value) # 0)
                    => /\ ~attributes(relation, d, file.headers).panic
                       /\ attributes(relation, d, file.headers).attributes[at] = target.alias
                       /\ ~(panicked /\ InFlight(d + 1))
                       /\ Returned(d) =>
                            ret.item[at] =
                                Last(produced[d + 1])[position(ChildAttributes(d),
                                                               target.expr.value)]

\* a select item whose expression is not a bare identifier
Computed(select_item) ==
    /\ select_item.kind \in {"UnnamedExpr", "ExprWithAlias"}
    /\ select_item.expr.kind # "Identifier"

HasComputed(statement) ==
    /\ statement.kind = "Query"
    /\ \E t \in 1..Len(statement.projection) : Computed(statement.projection[t])

\* C3: a query with a computed select item, aliased or not, never produces a
\* result row and the process never completes.
C3_ComputedItemAborts ==
    \A i \in 1..Len(ast) :
        HasComputed(ast[i]) =>
            /\ pc # "exited"
            /\ i <= Len(out) => Len(out[i]) <= 1

\* exactly SELECT <select-list> FROM <single-table> [WHERE <expr>]
PlainSelect(statement) ==
    /\ statement.kind = "Query"
    /\ statement.body = "Select"
    /\ statement.tail = ""
    /\ Len(statement.from) = 1
    /\ statement.from[1].joins = <<>>
    /\ statement.from[1].relation.kind = "Table"

\* C4: output is produced only for an input that is exactly one statement of
\* the plain SELECT shape.
C4_OnlyPlainSelectOutputs ==
    out # <<>> => Len(ast) = 1 /\ PlainSelect(ast[1])

\* C5: an operator chain is built (and a header written) only when the FROM
\* clause names exactly one source and no source has a join.
C5_SingleSourceOnly ==
    pc \in {"header", "rows"} =>
        /\ Len(ast[si].from) = 1
        /\ \A s \in 1..Len(ast[si].from) : ast[si].from[s].joins = <<>>

\* the column names an expression refers to
RECURSIVE Columns(_)
Columns(expr) ==
    CASE expr.kind = "Identifier" -> {expr.value}
      [] expr.kind = "BinaryOp" -> Columns(expr.left) \cup Columns(expr.right)
      [] OTHER -> {}

\* the column names a query refers to: in WHERE, and as sources of targets
References(statement) ==
    (IF statement.selection.some THEN Columns(statement.selection.item) ELSE {})
    \cup UNION {Columns(statement.projection[t].expr) :
                  t \in {u \in 1..Len(statement.projection) :
                           statement.projection[u].kind
                               \in {"UnnamedExpr", "ExprWithAlias"}}}

Unresolved(statement) ==
    /\ PlainSelect(statement)
    /\ \E name \in References(statement) : position(file.headers, name) = 0

\* C6: a query that refers to a column the table does not have never
\* completes, whatever the table holds.
C6_UnresolvedAborts ==
    \A i \in 1..Len(ast) : Unresolved(ast[i]) => pc # "exited"

\* C7: every item a relation returns is as long as the relation's attributes,
\* when it is returned and for every item returned before.
C7_RowLength ==
    \A d \in 1..Len(relation) :
        LET n == Len(attributes(relation, d, file.headers).attributes)
        IN  /\ Returned(d) => Len(ret.item) = n
            /\ \A k \in 1..Len(produced[d]) : Len(produced[d][k]) = n

\* C7 happens: a Projection over a Selection has returned an item for the
\* select list "*, x" over a two-column file.
C7_Witness ==
    /\ Len(relation) = 3
    /\ Returned(1)
    /\ relation[1].projected = Projections[10]
    /\ Len(file.headers) = 2
    /\ Len(ret.item) = 3

\* the index of the first malformed record, 0 when there is none
FirstErr(records) ==
    IF \E k \in 1..Len(records) : ~records[k].ok
    THEN CHOOSE k \in 1..Len(records) :
            ~records[k].ok /\ \A j \in 1..(k - 1) : records[j].ok
    ELSE 0

\* the CSV document a completed statement writes for well-formed records
Document(statement, headers, records) ==
    LET items == [k \in 1..Len(records) |-> record_item(records[k].cells)]
        keep(item) == Truthy(eval_expr_on_row(statement.selection.item, headers, item))
        kept == IF statement.selection.some THEN SelectSeq(items, keep) ELSE items
        row(item) == IF statement.projection = <<>> THEN item
                     ELSE Projection_item(statement.projection, headers, item).item
        names == IF statement.projection = <<>> THEN headers
                 ELSE Projection_attributes(statement.projection, headers).attributes
    IN  <<names>> \o [k \in 1..Len(kept) |-> row_record(row(kept[k]))]

\* C8: when record k of the file is malformed, no record after k is read, the
\* pull loop does not panic once record k is read, and a completed
\* statement's document is the one built from the records before k.
C8_TruncateOnError ==
    LET k == FirstErr(file.records)
    IN  k > 0 =>
            /\ pos <= k
            /\ (panicked /\ pc = "rows") => pos < k
            /\ \A i \in 1..Len(out) :
                   (i < si \/ (i = si /\ ended[1])) =>
                       out[i] = Document(ast[i], file.headers,
                                         SubSeq(file.records, 1, k - 1))

\* C8 happens: the process has exited after a file whose second record is
\* malformed and whose third is not, under a Selection and a Projection,
\* with a row written.
C8_Witness ==
    /\ pc = "exited"
    /\ Len(file.records) = 3
    /\ FirstErr(file.records) = 2
    /\ file.records[3].ok
    /\ Len(relation) = 3
    /\ Len(out[1]) = 2

\* C8 happens without a Selection too.
C8_WitnessScanOnly ==
    /\ pc = "exited"
    /\ Len(file.records) = 3
    /\ FirstErr(file.records) = 2
    /\ file.records[3].ok
    /\ Len(relation) = 1
    /\ Len(out[1]) = 2

\* C9: a Projection with the select list "*" reports its child's attributes
\* and returns every child item unchanged, whatever the header.
C9_WildcardCopies ==
    \A d \in 1..Len(relation) :
        (relation[d].kind = "Projection" /\ relation[d].projected = <<Wildcard>>) =>
            /\ attributes(relation, d, file.headers).attributes = ChildAttributes(d)
            /\ Returned(d) => ret.item = Last(produced[d + 1])

\* C10: in one next() every relation calls next() on its child at most once,
\* so a call on the root reads at most one record.
C10_AtMostOneChildCall ==
    /\ \A d \in 1..Len(relation) : calls[d] <= 1
    /\ reads <= 1

\* C10, amended: in one next() a Projection calls its child once and the scan
\* reads its reader once; a Selection calls its child once per item it drops
\* and once more for what it returns, so a call on the root reads one record
\* more than the Selection drops.
C10_ChildCalls ==
    \A d \in 1..Len(relation) :
        LET done == pc = "rows" /\ depth = d /\ dir = "ret"
            dropped == IF \E e \in 1..Len(relation) : relation[e].kind = "Selection"
                       THEN skipped[CHOOSE e \in 1..Len(relation) :
                                        relation[e].kind = "Selection"]
                       ELSE 0
        IN  /\ relation[d].kind = "Selection" =>
                /\ calls[d] <= skipped[d] + 1
                /\ done => calls[d] = skipped[d] + 1
            /\ relation[d].kind # "Selection" =>
                /\ calls[d] <= 1
                /\ skipped[d] = 0
                /\ done => calls[d] = 1
            /\ reads <= dropped + 1
            /\ (pc = "rows" /\ depth = 1 /\ dir = "ret") => reads = dropped + 1

\* C10 happens: a Selection under a Projection has returned after dropping
\* two items; the root call read three records.
C10_Witness ==
    /\ Len(relation) = 3
    /\ Returned(1)
    /\ skipped[2] = 2
    /\ calls[2] = 3
    /\ reads = 3

====
